---------------------------- MODULE Spec2Model ----------------------------
(***************************************************************************)
(* A model of coco-visualizer.py: the image-id lookup                      *)
(* (ExtractImageIDFromImageFile), the annotation renderer (DrawCocoBoxes), *)
(* the output directory creation of the workers (ProcessImages,            *)
(* CreateDirectorySafely) and the bulk driver (__main__).                  *)
(*                                                                         *)
(* Five specifications share the module:                                   *)
(*   Spec        one DrawCocoBoxes call over a small annotation set        *)
(*   SpecRender  the same, and also over one annotation whose bbox sweeps  *)
(*               a range of coordinates                                    *)
(*   SpecLookup  one ExtractImageIDFromImageFile call                      *)
(*   SpecDir     two workers creating the same output directory            *)
(*   SpecMain    the bulk driver sharding the file list                    *)
(***************************************************************************)
EXTENDS Integers, Sequences, FiniteSets, TLC

\* ------------------------------------------------------------------ bounds

\* Longest shard of a worker of the directory specification.
MaxShard == 2
\* Largest --num-process of the driver specification (smallest is -2).
MaxProcs == 3
\* Most image files the driver specification discovers.
MaxFiles == 4
\* Longest `images` list of the lookup specification.
MaxImages == 2
\* Longest `annotations` list of the render specification.
MaxAnnotations == 2
\* Largest mask margin of the sweep specification.
MaxMargin == 2
\* Largest bbox y of the sweep specification (smallest is -2).
MaxY == 9
\* Largest bbox height of the sweep specification.
MaxH == 72

\* Python's None is the empty tuple and a value v is <<v>>; a local variable
\* that was never assigned is the empty tuple too.
None == <<>>
Some(v) == <<v>>

\* ------------------------------------------------------------------- state

VARIABLES
    \* the arguments of the call, the parsed coco.json, the image's size
    force, verbose, filename, margin,
    hasImages, images, hasAnnotations, annotations, hasCategories, size,
    \* DrawCocoBoxes: position, outcome, locals
    pc, result, raised, image_id, idx,
    left_boundary, right_boundray, upper_boundary, lower_boundary,
    dyn_fontsize, dyn_offset, annotations_drawn_count,
    \* DrawCocoBoxes: what it drew and wrote
    draws, maskDraws, sidecar, outputWritten, maskedWritten,
    \* ExtractImageIDFromImageFile called on its own
    lk_out,
    \* the workers' output directory: whether it exists, and per worker the
    \* position, the retry attempt, what CreateDirectorySafely returned and
    \* the exception it caught, how the worker ended, its shard and progress
    dirExists, wpc, attempt, cds_ret, cds_err, wstatus, wshard, wdone,
    \* __main__: arguments, position, locals, outcome
    num_process, coco_given, single_image, nfiles, suggested_num_threads,
    mpc, num_threads, image_files, shard_size, loop_i, child_process,
    process_count, mraised

inputVars == <<force, verbose, filename, margin, hasImages, images,
               hasAnnotations, annotations, hasCategories, size>>
localVars == <<left_boundary, right_boundray, upper_boundary, lower_boundary,
               dyn_fontsize, dyn_offset, annotations_drawn_count>>
outVars   == <<draws, maskDraws, sidecar, outputWritten, maskedWritten>>
ctlVars   == <<pc, result, raised, image_id, idx>>
dirVars   == <<dirExists, wpc, attempt, cds_ret, cds_err, wstatus, wshard,
               wdone>>
mainVars  == <<num_process, coco_given, single_image, nfiles,
               suggested_num_threads,
               mpc, num_threads, image_files, shard_size, loop_i,
               child_process, process_count, mraised>>
vars == <<inputVars, localVars, outVars, ctlVars, lk_out, dirVars, mainVars>>

\* ----------------------------------------------- ExtractImageIDFromImageFile

\* The for loop of lines 33-37: the id of the first entry, from position i on,
\* whose file_name is the filename; None when the loop runs off the end.
RECURSIVE ScanImages(_, _, _)
ScanImages(imgs, fname, i) ==
    IF i > Len(imgs) THEN None
    ELSE IF imgs[i].file_name # fname THEN ScanImages(imgs, fname, i + 1)
    ELSE Some(imgs[i].id)

\* A scan that keeps going and returns the last match.
RECURSIVE ScanImagesLast(_, _, _)
ScanImagesLast(imgs, fname, i) ==
    IF i > Len(imgs) THEN None
    ELSE LET rest == ScanImagesLast(imgs, fname, i + 1)
         IN  IF imgs[i].file_name = fname /\ rest = None THEN Some(imgs[i].id)
             ELSE rest

ExtractLastMatch(fname, hasImgs, imgs, f) ==
    LET found == IF hasImgs THEN ScanImagesLast(imgs, fname, 1) ELSE None
    IN  IF found # None THEN [kind |-> "id", id |-> found]
        ELSE IF f THEN [kind |-> "none", id |-> None]
        ELSE [kind |-> "raise", id |-> None]

\* Lines 13-43. The outcome is a returned id, a returned None, or ValueError.
\* The diagnostics flag only prints (lines 27-28, 39-40): it is no parameter.
ExtractImageIDFromImageFile(fname, hasImgs, imgs, f) ==
    LET found == IF hasImgs THEN ScanImages(imgs, fname, 1) ELSE None
    IN  IF found # None THEN [kind |-> "id", id |-> found]
        ELSE IF f THEN [kind |-> "none", id |-> None]
        ELSE [kind |-> "raise", id |-> None]

\* ------------------------------------------------- DrawCocoBoxes: helpers

\* Python's int() of a quotient a / b (b > 0): truncation toward zero.
TruncDiv(a, b) == IF a >= 0 THEN a \div b ELSE -((-a) \div b)

\* A has_annotation that forgets to compare the image_id.
HasAnyAnnotation(hasAnns, anns, id) == hasAnns /\ Len(anns) > 0

\* Lines 64-70: whether some annotation references the image_id.
HasAnnotation(hasAnns, anns, id) ==
    hasAnns /\ \E i \in 1..Len(anns) : anns[i].image_id = id

\* A left boundary that is not clamped.
LeftUnclamped(x, m) == x - m

\* Lines 108-110.
LeftBoundary(x, m) == IF x - m < 0 THEN 0 ELSE x - m

\* Lines 111-113.
RightBoundary(x, w, m, W) == IF x + w + m > W THEN W ELSE x + w + m

\* Lines 114-116.
UpperBoundary(y, m) == IF y - m < 0 THEN 0 ELSE y - m

\* Lines 117-119.
LowerBoundary(y, h, m, H) == IF y + h + m > H THEN H ELSE y + h + m

\* A font size whose floor and threshold are both 5.
FontSizeMax5(span) ==
    LET s == TruncDiv(span * 15, 100) IN IF s < 5 THEN 5 ELSE s

\* Lines 130-132: int(span * 0.15), and 5 when that is below 10.
FontSize(span) ==
    LET s == TruncDiv(span * 15, 100) IN IF s < 10 THEN 5 ELSE s

\* An offset that is never clamped.
LabelOffsetUnclamped(sz, y) == TruncDiv(sz * 5, 4)

\* Lines 133-135: int(size * 1.25), clamped to y when the label would start
\* above the image.
LabelOffset(sz, y) ==
    LET o == TruncDiv(sz * 5, 4) IN IF y - o < 0 THEN y ELSE o

\* Lines 145-146.
CorrectedUpper(upper, y, off) == IF upper > y - off THEN y - off ELSE upper

\* The `categories` list of the modelled coco.json (when the key is present).
Categories == <<[id |-> 1, name |-> "cat"]>>

\* Lines 124-127: the first category with the id, else "Class <id>".
RECURSIVE CategoryName(_, _, _)
CategoryName(cats, cid, i) ==
    IF i > Len(cats) THEN <<"Class", cid>>
    ELSE IF cats[i].id = cid THEN <<cats[i].name>>
    ELSE CategoryName(cats, cid, i + 1)

\* Line 122.
Labelled(a) == a.hasCat /\ hasCategories

\* ------------------------------------------------- DrawCocoBoxes: the call

\* The annotation of the current loop iteration and its bbox.
Ann == annotations[idx]
BoxX == Ann.bbox[1]
BoxY == Ann.bbox[2]
BoxW == Ann.bbox[3]
BoxH == Ann.bbox[4]

\* What the sidecar .txt of the image holds when line 170 looks for it:
\* no file, a file that is gone when opened, fewer than 2 parts, a second
\* part that is no literal, a literal of the wrong shape, a 4-point polygon.
SidecarKinds == {"none", "vanished", "short", "syntax", "shape", "ok"}

\* The polygon of a well-formed sidecar: corners 0 and 2 are used.
BoundaryPolygon == <<<<5, 5>>, <<90, 5>>, <<90, 90>>, <<5, 90>>>>

Return(v) ==
    /\ result' = v
    /\ pc' = "done"

Raise(e) ==
    /\ result' = "raise"
    /\ raised' = e
    /\ pc' = "done"

\* Lines 59-62: resolve the image_id; None is a skip, ValueError propagates.
Lookup ==
    /\ pc = "start"
    /\ LET r == ExtractImageIDFromImageFile(filename, hasImages, images, force)
       IN  IF r.kind = "raise"
             THEN Raise("ValueError") /\ UNCHANGED image_id
           ELSE IF r.kind = "none"
             THEN Return("False") /\ UNCHANGED <<raised, image_id>>
           ELSE /\ image_id' = r.id
                /\ pc' = "scan"
                /\ UNCHANGED <<result, raised>>
    /\ UNCHANGED <<inputVars, localVars, outVars, idx, lk_out, dirVars, mainVars>>

\* Lines 64-72: skip the image when no annotation references it.
Scan ==
    /\ pc = "scan"
    /\ IF HasAnnotation(hasAnnotations, annotations, image_id[1])
         THEN pc' = "open" /\ UNCHANGED result
         ELSE Return("False")
    /\ annotations_drawn_count' = IF hasAnnotations THEN 0
                                  ELSE annotations_drawn_count
    /\ UNCHANGED <<inputVars, outVars, raised, image_id, idx, lk_out,
                   dirVars, mainVars, left_boundary, right_boundray, upper_boundary,
                   lower_boundary, dyn_fontsize, dyn_offset>>

\* Lines 74-87: open the image; with a margin, a mask of zeros; enter the
\* loop, or take the else branch of lines 152-158 when there is no
\* `annotations` key.
Open ==
    /\ pc = "open"
    /\ IF hasAnnotations
         THEN /\ pc' = "loop"
              /\ annotations_drawn_count' = 0
              /\ UNCHANGED <<result, raised>>
         ELSE /\ UNCHANGED annotations_drawn_count
              /\ IF ~force THEN Raise("ValueError")
                 ELSE IF verbose THEN Return("False") /\ UNCHANGED raised
                 ELSE pc' = "boundary" /\ UNCHANGED <<result, raised>>
    /\ draws' = <<>>
    /\ maskDraws' = <<>>
    /\ UNCHANGED <<inputVars, sidecar, outputWritten, maskedWritten,
                   image_id, idx, lk_out, dirVars, mainVars,
                   left_boundary, right_boundray, upper_boundary,
                   lower_boundary, dyn_fontsize, dyn_offset>>

\* Lines 88-119: the next annotation. One of another image, one without a
\* bbox and one with a short bbox are passed over; a bbox of more than 4
\* numbers fails to unpack (line 100); otherwise the outline is drawn and
\* the mask region computed.
LoopHead ==
    /\ pc = "loop"
    /\ IF idx = Len(annotations)
         THEN /\ pc' = "boundary"
              /\ UNCHANGED <<idx, result, raised, draws, left_boundary,
                             right_boundray, upper_boundary, lower_boundary>>
         ELSE LET a == annotations[idx + 1]
              IN  /\ idx' = idx + 1
                  /\ IF a.image_id # image_id[1] \/ ~a.hasBbox \/ Len(a.bbox) < 4
                       THEN /\ pc' = "loop"
                            /\ UNCHANGED <<result, raised, draws, left_boundary,
                                           right_boundray, upper_boundary,
                                           lower_boundary>>
                     ELSE IF Len(a.bbox) > 4
                       THEN /\ Raise("ValueError")
                            /\ UNCHANGED <<draws, left_boundary, right_boundray,
                                           upper_boundary, lower_boundary>>
                     ELSE LET x == a.bbox[1]
                              y == a.bbox[2]
                              w == a.bbox[3]
                              h == a.bbox[4]
                          IN  /\ draws' = Append(draws,
                                     [op |-> "outline", color |-> "red",
                                      box |-> <<x, y, x + w, y + h>>])
                              /\ left_boundary' = LeftBoundary(x, margin)
                              /\ right_boundray' =
                                     RightBoundary(x, w, margin, size[1])
                              /\ upper_boundary' = UpperBoundary(y, margin)
                              /\ lower_boundary' =
                                     LowerBoundary(y, h, margin, size[2])
                              /\ pc' = "label"
                              /\ UNCHANGED <<result, raised>>
    /\ UNCHANGED <<inputVars, maskDraws, sidecar, outputWritten, maskedWritten,
                   image_id, lk_out, dirVars, mainVars, dyn_fontsize,
                   dyn_offset, annotations_drawn_count>>

\* Lines 121-142: with a category_id and a `categories` key, the label: its
\* name, font size and offset, the filled box and the text at (x, y - offset).
Label ==
    /\ pc = "label"
    /\ IF Labelled(Ann)
         THEN LET sz  == FontSize(lower_boundary - upper_boundary)
                  off == LabelOffset(sz, BoxY)
              IN  /\ dyn_fontsize' = sz
                  /\ dyn_offset' = Some(off)
                  /\ draws' = Append(draws,
                         [op |-> "label", color |-> "red",
                          at |-> <<BoxX, BoxY - off>>, fontsize |-> sz,
                          text |-> CategoryName(Categories, Ann.category_id, 1)])
         ELSE UNCHANGED <<dyn_fontsize, dyn_offset, draws>>
    /\ annotations_drawn_count' = annotations_drawn_count + 1
    /\ pc' = "mask"
    /\ UNCHANGED <<inputVars, maskDraws, sidecar, outputWritten, maskedWritten,
                   result, raised, image_id, idx, lk_out, dirVars, mainVars,
                   left_boundary, right_boundray, upper_boundary,
                   lower_boundary>>

\* Lines 144-149: raise the region's top to the label's top and, with a
\* margin, fill the region on the mask. Line 145 reads dyn_offset, which only
\* a labelled annotation of this call assigns: unassigned, the read raises
\* UnboundLocalError.
Mask ==
    /\ pc = "mask"
    /\ IF dyn_offset = None
         THEN /\ Raise("UnboundLocalError")
              /\ UNCHANGED <<upper_boundary, maskDraws>>
         ELSE LET up == CorrectedUpper(upper_boundary, BoxY, dyn_offset[1])
              IN  /\ upper_boundary' = up
                  /\ maskDraws' =
                        IF margin > 0
                          THEN Append(maskDraws,
                                   <<left_boundary, up,
                                     right_boundray, lower_boundary>>)
                          ELSE maskDraws
                  /\ pc' = "loop"
                  /\ UNCHANGED <<result, raised>>
    /\ UNCHANGED <<inputVars, draws, sidecar, outputWritten, maskedWritten,
                   image_id, idx, lk_out, dirVars, mainVars, left_boundary,
                   right_boundray, lower_boundary, dyn_fontsize, dyn_offset,
                   annotations_drawn_count>>

\* Lines 169-211: the workspace boundary of the sidecar file. Inside the try,
\* a raise (lines 179, 201, the IndexError of parts[1], literal_eval's
\* errors, FileNotFoundError) is caught by lines 206-211 and the call goes on
\* to save; a return (lines 182, 204) leaves the call.
Boundary ==
    /\ pc = "boundary"
    /\ \E k \in SidecarKinds :
         /\ sidecar' = k
         /\ IF k \in {"short", "shape"} /\ force /\ verbose
              THEN Return("False") /\ UNCHANGED <<raised, draws>>
            ELSE /\ pc' = "save"
                 /\ draws' =
                       IF k = "ok"
                         THEN Append(draws,
                                  [op |-> "outline", color |-> "blue",
                                   box |-> <<BoundaryPolygon[1][1],
                                             BoundaryPolygon[1][2],
                                             BoundaryPolygon[3][1],
                                             BoundaryPolygon[3][2]>>])
                         ELSE draws
                 /\ UNCHANGED <<result, raised>>
    /\ UNCHANGED <<inputVars, localVars, maskDraws, outputWritten,
                   maskedWritten, image_id, idx, lk_out, dirVars, mainVars>>

\* Lines 213-220: write the annotated image, with a margin the masked one,
\* and return True.
Save ==
    /\ pc = "save"
    /\ outputWritten' = TRUE
    /\ maskedWritten' = (margin > 0)
    /\ Return("True")
    /\ UNCHANGED <<inputVars, localVars, draws, maskDraws, sidecar, raised,
                   image_id, idx, lk_out, dirVars, mainVars>>

\* ------------------------------------------- ExtractImageIDFromImageFile alone

\* One call of the lookup on the inputs of Init.
ExtractCall ==
    /\ lk_out.kind = "pending"
    /\ lk_out' = ExtractImageIDFromImageFile(filename, hasImages, images, force)
    /\ UNCHANGED <<inputVars, localVars, outVars, ctlVars, dirVars, mainVars>>

\* ------------------------------------ ProcessImages, CreateDirectorySafely

\* The worker processes that __main__ starts on the same output_dir.
Workers == {1, 2}

\* max_retries of CreateDirectorySafely (line 255), which ProcessImages
\* calls with the defaults: auto_delete=False, force=True, verbose=True.
MaxRetries == 3

\* Line 315: the directory is looked for; when missing,
\* CreateDirectorySafely is called.
PI_Check(w) ==
    /\ wpc[w] = "start"
    /\ wpc' = [wpc EXCEPT ![w] = IF dirExists THEN "images" ELSE "cds_exists"]
    /\ attempt' = [attempt EXCEPT ![w] = 0]
    /\ wstatus' = [wstatus EXCEPT ![w] = "running"]
    /\ UNCHANGED <<dirExists, cds_ret, cds_err, wshard, wdone>>
    /\ UNCHANGED <<inputVars, localVars, outVars, ctlVars, lk_out, mainVars>>

\* Lines 269-285: an attempt begins; an existing directory returns True.
CDS_Exists(w) ==
    /\ wpc[w] = "cds_exists"
    /\ IF dirExists
         THEN /\ cds_ret' = [cds_ret EXCEPT ![w] = "True"]
              /\ wpc' = [wpc EXCEPT ![w] = "pi_ret"]
         ELSE /\ wpc' = [wpc EXCEPT ![w] = "cds_makedirs"]
              /\ UNCHANGED cds_ret
    /\ UNCHANGED <<dirExists, attempt, cds_err, wstatus, wshard, wdone>>
    /\ UNCHANGED <<inputVars, localVars, outVars, ctlVars, lk_out, mainVars>>

\* Lines 287-311: os.makedirs(abs_path). On a directory that exists by now it
\* raises FileExistsError, which line 304 catches: with the default force and
\* verbose the call prints and returns False. Otherwise it creates the
\* directory, or the system refuses with PermissionError: the call retries
\* after the delay and on the last attempt returns False.
CDS_Makedirs(w) ==
    /\ wpc[w] = "cds_makedirs"
    /\ IF dirExists
         THEN /\ cds_ret' = [cds_ret EXCEPT ![w] = "False"]
              /\ cds_err' = [cds_err EXCEPT ![w] = "FileExistsError"]
              /\ wpc' = [wpc EXCEPT ![w] = "pi_ret"]
              /\ UNCHANGED <<dirExists, attempt>>
         ELSE \E ok \in BOOLEAN :
                IF ok
                  THEN /\ dirExists' = TRUE
                       /\ cds_ret' = [cds_ret EXCEPT ![w] = "True"]
                       /\ wpc' = [wpc EXCEPT ![w] = "pi_ret"]
                       /\ UNCHANGED <<attempt, cds_err>>
                ELSE IF attempt[w] < MaxRetries - 1
                  THEN /\ attempt' = [attempt EXCEPT ![w] = @ + 1]
                       /\ wpc' = [wpc EXCEPT ![w] = "cds_exists"]
                       /\ UNCHANGED <<dirExists, cds_ret, cds_err>>
                ELSE /\ cds_ret' = [cds_ret EXCEPT ![w] = "False"]
                     /\ cds_err' = [cds_err EXCEPT ![w] = "PermissionError"]
                     /\ wpc' = [wpc EXCEPT ![w] = "pi_ret"]
                     /\ UNCHANGED <<dirExists, attempt>>
    /\ UNCHANGED <<wstatus, wshard, wdone>>
    /\ UNCHANGED <<inputVars, localVars, outVars, ctlVars, lk_out, mainVars>>

\* Lines 316-323: a False from CreateDirectorySafely ends the worker, by
\* ValueError when force is unset and by exit(-4) when it is set.
PI_Ret(w) ==
    /\ wpc[w] = "pi_ret"
    /\ IF cds_ret[w] = "False"
         THEN /\ wstatus' = [wstatus EXCEPT ![w] =
                                IF ~force THEN "raised" ELSE "exited"]
              /\ wpc' = [wpc EXCEPT ![w] = "done"]
         ELSE /\ wpc' = [wpc EXCEPT ![w] = "images"]
              /\ UNCHANGED wstatus
    /\ UNCHANGED <<dirExists, attempt, cds_ret, cds_err, wshard, wdone>>
    /\ UNCHANGED <<inputVars, localVars, outVars, ctlVars, lk_out, mainVars>>

\* Lines 325-327: the worker renders the next image of its shard, and
\* finishes after the last.
PI_Image(w) ==
    /\ wpc[w] = "images"
    /\ IF wdone[w] < wshard[w]
         THEN /\ wdone' = [wdone EXCEPT ![w] = @ + 1]
              /\ UNCHANGED <<wpc, wstatus>>
         ELSE /\ wpc' = [wpc EXCEPT ![w] = "done"]
              /\ wstatus' = [wstatus EXCEPT ![w] = "finished"]
              /\ UNCHANGED wdone
    /\ UNCHANGED <<dirExists, attempt, cds_ret, cds_err, wshard>>
    /\ UNCHANGED <<inputVars, localVars, outVars, ctlVars, lk_out, mainVars>>

\* ---------------------------------------------------------------- __main__

\* Python's int(a / b) for a >= 0 and b # 0: truncation toward zero.
IntQuot(a, b) == IF b > 0 THEN a \div b ELSE -(a \div (-b))

\* Python's seq[a:b] on the list 1..n: a negative index counts from the end,
\* both are clamped to 0..n.
SliceIndex(n, i) == IF i < 0 THEN (IF i + n < 0 THEN 0 ELSE i + n)
                    ELSE IF i > n THEN n ELSE i

Slice(n, a, b) ==
    LET lo == SliceIndex(n, a)
        hi == SliceIndex(n, b)
    IN  IF lo < hi THEN [k \in 1..(hi - lo) |-> lo + k] ELSE <<>>

MRaise(e) ==
    /\ mraised' = e
    /\ mpc' = "done"

\* Lines 342-351: the worker count. A negative one raises when force is
\* unset; num_threads is the given count when positive and the suggested one
\* otherwise.
M_CheckNum ==
    /\ mpc = "start"
    /\ num_threads' = IF num_process > 0 THEN num_process
                      ELSE suggested_num_threads
    /\ IF num_process < 0 /\ ~force
         THEN MRaise("ValueError")
         ELSE mpc' = "coco" /\ UNCHANGED mraised
    /\ UNCHANGED <<num_process, coco_given, single_image, nfiles,
                   suggested_num_threads, image_files, shard_size, loop_i,
                   child_process, process_count>>
    /\ UNCHANGED <<inputVars, localVars, outVars, ctlVars, lk_out, dirVars>>

\* Lines 361-379: coco.json is read from the input directory; a --coco-path
\* or the single-image mode raises (line 366).
M_LoadCoco ==
    /\ mpc = "coco"
    /\ IF ~coco_given /\ ~single_image
         THEN mpc' = "discover" /\ UNCHANGED mraised
         ELSE MRaise("ValueError")
    /\ UNCHANGED <<num_process, coco_given, single_image, nfiles,
                   suggested_num_threads, num_threads, image_files,
                   shard_size, loop_i, child_process, process_count>>
    /\ UNCHANGED <<inputVars, localVars, outVars, ctlVars, lk_out, dirVars>>

\* Lines 397-424: the image files of the directories, in discovery order
\* (file k of nfiles is k).
M_Discover ==
    /\ mpc = "discover"
    /\ image_files' = Some([k \in 1..nfiles |-> k])
    /\ child_process' = <<>>
    /\ mpc' = "shard"
    /\ UNCHANGED <<num_process, coco_given, single_image, nfiles,
                   suggested_num_threads, num_threads, shard_size, loop_i,
                   process_count, mraised>>
    /\ UNCHANGED <<inputVars, localVars, outVars, ctlVars, lk_out, dirVars>>

\* The count that lines 426-431 divide by and loop to: args.num_process.
ShardCount == num_process

\* Line 426: shard_size = int(len(image_files) / args.num_process); a count
\* of 0 raises ZeroDivisionError.
M_Shard ==
    /\ mpc = "shard"
    /\ IF ShardCount = 0
         THEN MRaise("ZeroDivisionError") /\ UNCHANGED <<shard_size, loop_i>>
         ELSE /\ shard_size' = IntQuot(nfiles, ShardCount)
              /\ loop_i' = 0
              /\ mpc' = "start_workers"
              /\ UNCHANGED mraised
    /\ UNCHANGED <<num_process, coco_given, single_image, nfiles,
                   suggested_num_threads, num_threads, image_files,
                   child_process, process_count>>
    /\ UNCHANGED <<inputVars, localVars, outVars, ctlVars, lk_out, dirVars>>

\* Lines 427-430: worker i of range(args.num_process - 1) is started on
\* image_files[shard_size * i : shard_size * (i + 1)].
M_StartWorker ==
    /\ mpc = "start_workers"
    /\ loop_i < ShardCount - 1
    /\ child_process' = Append(child_process,
           Slice(nfiles, shard_size * loop_i, shard_size * (loop_i + 1)))
    /\ loop_i' = loop_i + 1
    /\ UNCHANGED <<num_process, coco_given, single_image, nfiles,
                   suggested_num_threads, mpc, num_threads, image_files,
                   shard_size, process_count, mraised>>
    /\ UNCHANGED <<inputVars, localVars, outVars, ctlVars, lk_out, dirVars>>

\* Lines 431-435: the last worker is started on
\* image_files[shard_size * (args.num_process - 1):].
M_StartLast ==
    /\ mpc = "start_workers"
    /\ ~(loop_i < ShardCount - 1)
    /\ child_process' = Append(child_process,
           Slice(nfiles, shard_size * (ShardCount - 1), nfiles))
    /\ process_count' = 0
    /\ mpc' = "join"
    /\ UNCHANGED <<num_process, coco_given, single_image, nfiles,
                   suggested_num_threads, num_threads, image_files,
                   shard_size, loop_i, mraised>>
    /\ UNCHANGED <<inputVars, localVars, outVars, ctlVars, lk_out, dirVars>>

\* Lines 436-442: the started workers are joined one after the other.
M_Join ==
    /\ mpc = "join"
    /\ IF process_count < Len(child_process)
         THEN process_count' = process_count + 1 /\ UNCHANGED mpc
         ELSE mpc' = "done" /\ UNCHANGED process_count
    /\ UNCHANGED <<num_process, coco_given, single_image, nfiles,
                   suggested_num_threads, num_threads, image_files,
                   shard_size, loop_i, child_process, mraised>>
    /\ UNCHANGED <<inputVars, localVars, outVars, ctlVars, lk_out, dirVars>>

\* ------------------------------------------------------------ initial states

SeqsUpTo(S, n) == UNION {[1..k -> S] : k \in 0..n}

Annotation(img, hasB, bbox, cat) ==
    [image_id |-> img, hasBbox |-> hasB, bbox |-> bbox,
     hasCat |-> cat # None, category_id |-> IF cat = None THEN 0 ELSE cat[1]]

\* category_id absent, naming a category, naming none.
CatChoices == {None, Some(1), Some(7)}

\* The spec's example box; one clipped left and right whose label hits the top
\* edge; one clipped at the bottom, tall enough for a font above 10; one that
\* starts above the image.
Boxes == {<<10, 10, 50, 30>>, <<2, 3, 95, 45>>, <<10, 60, 50, 80>>,
          <<10, -5, 50, 30>>}

\* The annotations of the render specification: of the image (id 1) with
\* each box and category choice, without bbox, with a short and a long bbox,
\* and one of another image (id 2).
Annotations ==
    {Annotation(1, TRUE, b, c) : b \in Boxes, c \in CatChoices}
    \cup {Annotation(1, FALSE, <<>>, None),
          Annotation(1, TRUE, <<10, 10, 50>>, Some(1)),
          Annotation(1, TRUE, <<10, 10, 50, 30, 1>>, Some(1)),
          Annotation(2, TRUE, <<10, 10, 50, 30>>, Some(1))}

Image(name, id) == [file_name |-> name, id |-> id]

InitIdle ==
    /\ pc = "start" /\ result = "none" /\ raised = "none"
    /\ image_id = None /\ idx = 0
    /\ left_boundary = 0 /\ right_boundray = 0
    /\ upper_boundary = 0 /\ lower_boundary = 0
    /\ dyn_fontsize = 0 /\ dyn_offset = None
    /\ annotations_drawn_count = 0
    /\ draws = <<>> /\ maskDraws = <<>> /\ sidecar = "none"
    /\ outputWritten = FALSE /\ maskedWritten = FALSE
    /\ lk_out = [kind |-> "pending", id |-> None]

InitDirIdle ==
    /\ dirExists = FALSE
    /\ wpc = <<"idle", "idle">> /\ attempt = <<0, 0>>
    /\ cds_ret = <<"none", "none">> /\ cds_err = <<"none", "none">>
    /\ wstatus = <<"idle", "idle">>
    /\ wshard = <<0, 0>> /\ wdone = <<0, 0>>

InitMainIdle ==
    /\ num_process = 0 /\ coco_given = FALSE /\ single_image = FALSE
    /\ nfiles = 0
    /\ suggested_num_threads = 1
    /\ mpc = "idle" /\ num_threads = 0 /\ image_files = None
    /\ shard_size = 0 /\ loop_i = 0 /\ child_process = <<>>
    /\ process_count = 0 /\ mraised = "none"

\* One DrawCocoBoxes call on "a.jpg": coco.json without `images`, with the
\* image second in the list, without the image; without `annotations` or
\* with up to MaxAnnotations of them; with or without `categories`.
Init ==
    /\ force \in BOOLEAN /\ verbose \in BOOLEAN
    /\ filename = "a.jpg"
    /\ margin \in {0, 5}
    /\ \E im \in {None, Some(<<Image("b.jpg", 2), Image("a.jpg", 1)>>),
                  Some(<<Image("b.jpg", 2)>>)} :
         /\ hasImages = (im # None)
         /\ images = IF im = None THEN <<>> ELSE im[1]
    /\ \E an \in {None} \cup {Some(q) : q \in SeqsUpTo(Annotations, MaxAnnotations)} :
         /\ hasAnnotations = (an # None)
         /\ annotations = IF an = None THEN <<>> ELSE an[1]
    /\ hasCategories \in BOOLEAN
    /\ size = <<100, 128>>
    /\ InitIdle /\ InitDirIdle /\ InitMainIdle

Next ==
    \/ Lookup
    \/ Scan
    \/ Open
    \/ LoopHead
    \/ Label
    \/ Mask
    \/ Boundary
    \/ Save

Spec == Init /\ [][Next]_vars

\* One DrawCocoBoxes call on an image of 3 x 70 with one annotation whose
\* bbox sweeps x, y, w, h, under every margin up to MaxMargin.
InitGeom ==
    /\ force = TRUE /\ verbose \in BOOLEAN
    /\ filename = "a.jpg"
    /\ margin \in 0..MaxMargin
    /\ hasImages = TRUE
    /\ images = <<Image("a.jpg", 1)>>
    /\ hasAnnotations = TRUE
    /\ \E x \in 0..1, y \in -2..MaxY, w \in 2..3, h \in 0..MaxH,
          c \in {None, Some(1)} :
         annotations = <<Annotation(1, TRUE, <<x, y, w, h>>, c)>>
    /\ hasCategories = TRUE
    /\ size = <<3, 70>>
    /\ InitIdle /\ InitDirIdle /\ InitMainIdle

\* One lookup: every `images` list of up to MaxImages entries over three
\* names (two differing in case only) and two ids.
InitLookup ==
    /\ force \in BOOLEAN /\ verbose \in BOOLEAN
    /\ filename \in {"a.jpg", "b.jpg"}
    /\ \E im \in {None} \cup
           {Some(q) : q \in SeqsUpTo({Image(n, i) : n \in {"a.jpg", "A.jpg", "b.jpg"},
                                                    i \in 1..2}, MaxImages)} :
         /\ hasImages = (im # None)
         /\ images = IF im = None THEN <<>> ELSE im[1]
    /\ margin = 0 /\ hasAnnotations = FALSE /\ annotations = <<>>
    /\ hasCategories = FALSE /\ size = <<0, 0>>
    /\ InitIdle /\ InitDirIdle /\ InitMainIdle

NextLookup == ExtractCall

SpecLookup == InitLookup /\ [][NextLookup]_vars

\* Two workers of one run, each with a shard of up to MaxShard images, on
\* an output directory that exists already or does not.
InitDir ==
    /\ force \in BOOLEAN /\ verbose \in BOOLEAN
    /\ filename = "a.jpg" /\ margin = 0
    /\ hasImages = FALSE /\ images = <<>>
    /\ hasAnnotations = FALSE /\ annotations = <<>>
    /\ hasCategories = FALSE /\ size = <<0, 0>>
    /\ InitIdle /\ InitMainIdle
    /\ dirExists \in BOOLEAN
    /\ wpc = <<"start", "start">> /\ attempt = <<0, 0>>
    /\ cds_ret = <<"none", "none">> /\ cds_err = <<"none", "none">>
    /\ wstatus = <<"running", "running">>
    /\ wshard \in [Workers -> 0..MaxShard]
    /\ wdone = <<0, 0>>

NextDir ==
    \E w \in Workers :
        \/ PI_Check(w)
        \/ CDS_Exists(w)
        \/ CDS_Makedirs(w)
        \/ PI_Ret(w)
        \/ PI_Image(w)

SpecDir == InitDir /\ [][NextDir]_vars

\* One bulk run: --num-process from -2 to MaxProcs, up to MaxFiles image
\* files, 1 or 2 suggested threads, with or without --coco-path and
\* --single-image.
InitMain ==
    /\ force \in BOOLEAN /\ verbose \in BOOLEAN
    /\ filename = "a.jpg" /\ margin = 0
    /\ hasImages = FALSE /\ images = <<>>
    /\ hasAnnotations = FALSE /\ annotations = <<>>
    /\ hasCategories = FALSE /\ size = <<0, 0>>
    /\ InitIdle /\ InitDirIdle
    /\ num_process \in -2..MaxProcs
    /\ coco_given \in BOOLEAN /\ single_image \in BOOLEAN
    /\ nfiles \in 0..MaxFiles
    /\ suggested_num_threads \in 1..2
    /\ mpc = "start" /\ num_threads = 0 /\ image_files = None
    /\ shard_size = 0 /\ loop_i = 0 /\ child_process = <<>>
    /\ process_count = 0 /\ mraised = "none"

NextMain ==
    \/ M_CheckNum
    \/ M_LoadCoco
    \/ M_Discover
    \/ M_Shard
    \/ M_StartWorker
    \/ M_StartLast
    \/ M_Join

SpecMain == InitMain /\ [][NextMain]_vars

\* Both families of render inputs: the annotation sets of Init and the
\* coordinate sweep of InitGeom.
InitRender == Init \/ InitGeom

SpecRender == InitRender /\ [][Next]_vars

\* ------------------------------------------------------------------ claims

MaxOf(a, b) == CHOOSE v \in {a, b} : v >= a /\ v >= b
MinOf(a, b) == CHOOSE v \in {a, b} : v <= a /\ v <= b

\* The annotation of the current iteration is of the image and has a bbox of
\* 4 numbers: the loop body draws it.
Drawable == /\ idx > 0
            /\ Ann.image_id = image_id[1]
            /\ Ann.hasBbox
            /\ Len(Ann.bbox) = 4

\* The positions of `images` whose file_name is the filename.
Matches == {i \in 1..Len(images) : images[i].file_name = filename}

\* No annotation references the resolved image_id.
NoMatchingAnnotation ==
    \/ ~hasAnnotations
    \/ \A i \in 1..Len(annotations) : annotations[i].image_id # image_id[1]

\* C1: for metadata with one matching annotation that has a 4-number bbox and
\* no category_id, the call ends having drawn exactly the one outline from
\* (x, y) to (x + w, y + h) and no label, without raising, with the output
\* written and True returned. (No sidecar file exists in the case stated.)
C1_UnlabelledBoxRendered ==
    ( /\ pc = "done"
      /\ image_id # None
      /\ sidecar = "none"
      /\ Len(annotations) = 1
      /\ annotations[1].image_id = image_id[1]
      /\ annotations[1].hasBbox
      /\ Len(annotations[1].bbox) = 4
      /\ ~annotations[1].hasCat )
    => LET b == annotations[1].bbox
       IN  /\ result = "True"
           /\ raised = "none"
           /\ outputWritten
           /\ draws = <<[op |-> "outline", color |-> "red",
                         box |-> <<b[1], b[2], b[1] + b[3], b[2] + b[4]>>]>>

\* C2: when the sidecar splits into fewer than 2 parts, whatever force and
\* verbose are, the call still writes the annotated image, does not raise and
\* returns True.
C2_ShortSidecarStillSaves ==
    (pc = "done" /\ sidecar = "short")
    => (result = "True" /\ raised = "none" /\ outputWritten)

\* C3: the lookup returns the id of the first entry of `images` whose
\* file_name is the filename; with no `images` or no such entry it returns
\* None when force is set and raises when it is not, whatever verbose is.
C3_LookupFirstMatch ==
    lk_out.kind # "pending"
    => IF hasImages /\ Matches # {}
         THEN LET first == CHOOSE i \in Matches : \A j \in Matches : i <= j
              IN  lk_out = [kind |-> "id", id |-> Some(images[first].id)]
         ELSE IF force THEN lk_out = [kind |-> "none", id |-> None]
         ELSE lk_out.kind = "raise"

\* Two entries match and carry different ids: the first one's is returned.
C3_Witness ==
    /\ lk_out.kind = "id"
    /\ Cardinality(Matches) = 2
    /\ \E i \in Matches, j \in Matches : images[i].id # images[j].id

C5_StrictMetadataMissingRaises ==
    (pc = "done" /\ ~force /\ (~hasImages \/ ~hasAnnotations))
    => result = "raise"

\* C8: once the mask region of an annotation is computed, and before the
\* label correction, left = max(0, x - m), right = min(W, x + w + m),
\* top = max(0, y - m), bottom = min(H, y + h + m).
C8_MaskRegion ==
    pc = "label"
    => /\ left_boundary = MaxOf(0, BoxX - margin)
       /\ right_boundray = MinOf(size[1], BoxX + BoxW + margin)
       /\ upper_boundary = MaxOf(0, BoxY - margin)
       /\ lower_boundary = MinOf(size[2], BoxY + BoxH + margin)

\* The spec's example: bbox [10, 10, 50, 30] and margin 5 give (5,5)-(65,45).
C8_Witness ==
    /\ pc = "label"
    /\ Ann.bbox = <<10, 10, 50, 30>>
    /\ margin = 5
    /\ <<left_boundary, upper_boundary, right_boundray, lower_boundary>>
           = <<5, 5, 65, 45>>

\* floor(0.15 * span) of the region whose label is being placed.
ScaledSpan == (15 * (lower_boundary - upper_boundary)) \div 100

\* C9 as stated: the font size of a labelled annotation is
\* max(5, floor(0.15 * (bottom - top))).
C9_FontSizeIsMax5 ==
    (pc = "mask" /\ Labelled(Ann)) => dyn_fontsize = MaxOf(5, ScaledSpan)

\* C9 as amended: the font size of a labelled annotation is
\* floor(0.15 * (bottom - top)) when that is at least 10, and 5 otherwise.
C9_FontSizeBelow10Is5 ==
    (pc = "mask" /\ Labelled(Ann))
    => dyn_fontsize = IF ScaledSpan >= 10 THEN ScaledSpan ELSE 5

\* A labelled annotation whose 0.15-multiple floors to 6..9 got size 5.
C9_Witness ==
    /\ pc = "mask"
    /\ Labelled(Ann)
    /\ ScaledSpan \in 6..9
    /\ dyn_fontsize = 5

\* The label drawn last.
LastLabel == draws[Len(draws)]

\* C10: a labelled annotation's label is anchored at (x, y - offset), offset
\* being floor(1.25 * size), or y when y - floor(1.25 * size) < 0; the
\* anchor's y is never negative; after the correction the region's top is at
\* most y - offset, and so is the top of the rectangle filled on the mask.
C10_LabelInsideMask ==
    (pc = "loop" /\ Drawable /\ Labelled(Ann))
    => LET o   == (5 * dyn_fontsize) \div 4
           off == IF BoxY - o < 0 THEN BoxY ELSE o
       IN  /\ dyn_offset = Some(off)
           /\ LastLabel.op = "label"
           /\ LastLabel.at = <<BoxX, BoxY - off>>
           /\ LastLabel.at[2] >= 0
           /\ upper_boundary <= BoxY - off
           /\ margin > 0 =>
                /\ maskDraws # <<>>
                /\ maskDraws[Len(maskDraws)][2] <= LastLabel.at[2]

\* A labelled annotation whose region's top was raised to the label's top and
\* filled on the mask.
C10_Witness ==
    /\ pc = "loop"
    /\ Drawable
    /\ Labelled(Ann)
    /\ margin > 0
    /\ UpperBoundary(BoxY, margin) > BoxY - dyn_offset[1]
    /\ maskDraws[Len(maskDraws)][2] = LastLabel.at[2]

\* C6: when two workers run the directory creation for the same directory,
\* in every interleaving each one that the system did not refuse
\* (PermissionError) finds the directory created: its CreateDirectorySafely
\* does not return False and the worker neither exits nor raises.
C6_ConcurrentCreateSucceeds ==
    \A w \in Workers :
        (wpc[w] \in {"pi_ret", "images", "done"} /\ cds_err[w] # "PermissionError")
        => /\ cds_ret[w] # "False"
           /\ wstatus[w] \notin {"exited", "raised"}

\* The shards of the started workers, one after the other.
RECURSIVE Concat(_)
Concat(ss) == IF ss = <<>> THEN <<>> ELSE Head(ss) \o Concat(Tail(ss))

\* C7: for every worker count >= 0 (0 standing for the detected count) and
\* every discovered file list, the run ends with one worker per range, as
\* many as the count, the ranges being the file list cut in order (every
\* file in exactly one shard), and every started worker joined.
C7_ShardsPartition ==
    (mpc = "done" /\ image_files # None /\ num_process >= 0)
    => /\ mraised = "none"
       /\ Len(child_process) = (IF num_process = 0 THEN suggested_num_threads
                                ELSE num_process)
       /\ Concat(child_process) = image_files[1]
       /\ process_count = Len(child_process)

\* C11: the rectangle filled on the mask for an annotation depends only on
\* the annotation's own bbox and label, the margin and the image size,
\* whatever annotations were processed before it: its sides are the clamped
\* region of its bbox, its top is the lower of that region's top and its own
\* label's top, and without a label the top is the region's top, which is
\* not negative.
C11_MaskRectOwnAnnotation ==
    (pc = "loop" /\ Drawable /\ margin > 0)
    => LET ownTop == IF Labelled(Ann)
                       THEN MinOf(MaxOf(0, BoxY - margin),
                                  BoxY - LabelOffset(
                                      FontSize(MinOf(size[2], BoxY + BoxH + margin)
                                               - MaxOf(0, BoxY - margin)), BoxY))
                       ELSE MaxOf(0, BoxY - margin)
           rect   == maskDraws[Len(maskDraws)]
       IN  /\ maskDraws # <<>>
           /\ rect = <<MaxOf(0, BoxX - margin), ownTop,
                       MinOf(size[1], BoxX + BoxW + margin),
                       MinOf(size[2], BoxY + BoxH + margin)>>
           /\ ~Labelled(Ann) => rect[2] >= 0

=============================================================================
